---- MODULE Spec2Model ----
(***************************************************************************)
(* Model of photutils/background.py: the Background estimator.             *)
(*                                                                         *)
(* Arrays are functions over 0-based index ranges, as in numpy.  Pixel     *)
(* values are integers, and every statistic is kept as an exact value: a   *)
(* reduced fraction [kind |-> "frac"], the square root of a fraction       *)
(* [kind |-> "sqrt"], or a masked cell [kind |-> "masked"].  The results   *)
(* of scipy's generic_filter and RectBivariateSpline are kept as terms     *)
(* (the window a median is taken over, the point a spline is evaluated     *)
(* at): the source fixes what they are applied to, not their numerics.     *)
(***************************************************************************)
EXTENDS Integers, Sequences, FiniteSets, TLC

VARIABLES
    pc,             \* "new" | "ready" (constructed) | "raised" (__init__ raised)
    args,           \* the arguments of the call Background(...)
    self,           \* the instance attributes set by __init__ (obj.__dict__ part 1)
    cache,          \* values stored by lazyproperty (obj.__dict__ part 2)
    evals,          \* per lazyproperty: how often its body was entered
    calls,          \* per library routine: how often it was called
    sigclip_trace,  \* the tile-grid mask before and after every clip iteration
    ret             \* outcome of the latest call: value returned or exception raised

vars == <<pc, args, self, cache, evals, calls, sigclip_trace, ret>>

----------------------------------------------------------------------------
(* Bounds of the model *)

\* image height and width range over 1..MaxDim
MaxDim == 2
\* box height and width range over 1..MaxBox
MaxBox == 2
\* a lazyproperty body is entered at most MaxEvals times in a behaviour
MaxEvals == 2

----------------------------------------------------------------------------
(* Encodings *)

\* np.nan as a pixel value (real pixel values of the model are >= 0)
NaN == -1
\* sigclip_iters=None
None_iters == -2

IsNaN(x) == x = NaN

Abs(x) == IF x < 0 THEN -x ELSE x

RECURSIVE GCD(_, _)
GCD(a, b) == IF b = 0 THEN a ELSE GCD(b, a % b)

\* the exact rational n/d (d > 0), reduced
Frac(n, d) ==
    LET g == GCD(Abs(n), d)
    IN  [kind |-> "frac", n |-> n \div g, d |-> d \div g]

\* the square root of the exact rational n/d (n >= 0, d > 0)
Sqrt(n, d) ==
    LET g == GCD(n, d)
    IN  [kind |-> "sqrt", n |-> n \div g, d |-> d \div g]

Masked == [kind |-> "masked"]

----------------------------------------------------------------------------
(* numpy arrays *)

\* f itself, evaluated once at every index (TLC otherwise evaluates a function
\* expression again at every application)
Eval(f) == IF f = f THEN f ELSE f

Len0(a) == Cardinality(DOMAIN a)

\* a.shape of a 2-d array
Shape(a) == <<Len0(a), Len0(a[0])>>

\* np.pad(a, ((0, ypad), (0, xpad)), mode='constant', constant_values=[fill])
np_pad(a, ypad, xpad, fill) ==
    LET ny == Shape(a)[1]
        nx == Shape(a)[2]
    IN  Eval([r \in 0..(ny + ypad - 1) |-> [c \in 0..(nx + xpad - 1) |->
            IF r < ny /\ c < nx THEN a[r][c] ELSE fill]])

\* np.ma.masked_array(data, mask=mask); mask=None gives an all-false mask
masked_array(data, mask) ==
    [data |-> data,
     mask |-> IF mask.some THEN mask.arr
              ELSE [r \in DOMAIN data |-> [c \in DOMAIN data[r] |-> FALSE]]]

\* np.isnan(a), elementwise
np_isnan(a) == Eval([r \in DOMAIN a |-> [c \in DOMAIN a[r] |-> IsNaN(a[r][c])]])

\* np.logical_or(a, b), elementwise
np_logical_or(a, b) ==
    Eval([r \in DOMAIN a |-> [c \in DOMAIN a[r] |-> a[r][c] \/ b[r][c]]])

----------------------------------------------------------------------------
(* Background._pad_data *)

\* ypad without the test yextra > 0
pad_ypad_unguarded(yextra, box_shape) == box_shape[1] - yextra

\* pad_width[0][1] and pad_width[1][1]: rows and columns appended at the end
pad_ypad(yextra, box_shape) == IF yextra > 0 THEN box_shape[1] - yextra ELSE 0
pad_xpad(xextra, box_shape) == IF xextra > 0 THEN box_shape[2] - xextra ELSE 0

\* the value np.pad fills the new pixels of the data with
pad_fill == NaN

\* the data padded with zeros, as the mask is
pad_data_zero_fill(data, mask, yextra, xextra, box_shape) ==
    LET ypad == pad_ypad(yextra, box_shape)
        xpad == pad_xpad(xextra, box_shape)
        padded_data == np_pad(data, ypad, xpad, 0)
        nan_mask == np_isnan(padded_data)
        padded_mask ==
            IF mask.some
            THEN np_logical_or(nan_mask, np_pad(mask.arr, ypad, xpad, FALSE))
            ELSE nan_mask
    IN  [data |-> padded_data, mask |-> padded_mask]

pad_data(data, mask, yextra, xextra, box_shape) ==
    LET ypad == pad_ypad(yextra, box_shape)
        xpad == pad_xpad(xextra, box_shape)
        padded_data == np_pad(data, ypad, xpad, pad_fill)
        nan_mask == np_isnan(padded_data)
        padded_mask ==
            IF mask.some
            THEN np_logical_or(nan_mask, np_pad(mask.arr, ypad, xpad, FALSE))
            ELSE nan_mask
    IN  [data |-> padded_data, mask |-> padded_mask]

----------------------------------------------------------------------------
(* Background._sigclip_data: the tiling *)

\* a.reshape(d0, d1, d2, d3) of a 2-d array (C order)
reshape4(a, d0, d1, d2, d3) ==
    LET nx == Shape(a)[2]
    IN  [i0 \in 0..(d0 - 1) |-> [i1 \in 0..(d1 - 1) |->
         [i2 \in 0..(d2 - 1) |-> [i3 \in 0..(d3 - 1) |->
            LET k == ((i0 * d1 + i1) * d2 + i2) * d3 + i3
            IN  a[k \div nx][k % nx]]]]]

\* np.ma.swapaxes(b, 1, 2) of a 4-d array
swapaxes12(b) ==
    [i0 \in DOMAIN b |-> [i2 \in DOMAIN b[i0][0] |-> [i1 \in DOMAIN b[i0] |->
        b[i0][i1][i2]]]]

\* s.reshape(d0, d1, n) of a 4-d array of shape (d0, d1, e2, e3), n = e2 * e3
reshape3(s, d0, d1, n) ==
    LET e3 == Len0(s[0][0][0])
    IN  [i \in 0..(d0 - 1) |-> [j \in 0..(d1 - 1) |-> [p \in 0..(n - 1) |->
            s[i][j][p \div e3][p % e3]]]]

\* the tiling without swapaxes: self.data.reshape(y_nbins, x_nbins, ny_box * nx_box)
rebin_no_swapaxes(a, box_shape) ==
    LET nx == Shape(a)[2]
        n == box_shape[1] * box_shape[2]
        y_nbins == Shape(a)[1] \div box_shape[1]
        x_nbins == nx \div box_shape[2]
    IN  Eval([i \in 0..(y_nbins - 1) |-> [j \in 0..(x_nbins - 1) |-> [p \in 0..(n - 1) |->
            LET k == (i * x_nbins + j) * n + p
            IN  a[k \div nx][k % nx]]]])

\* data_rebin of one component (data or mask) of self.data
rebin(a, box_shape) ==
    LET ny == Shape(a)[1]
        nx == Shape(a)[2]
        ny_box == box_shape[1]
        nx_box == box_shape[2]
        y_nbins == ny \div ny_box
        x_nbins == nx \div nx_box
    IN  Eval(reshape3(swapaxes12(reshape4(a, y_nbins, ny_box, x_nbins, nx_box)),
                      y_nbins, x_nbins, ny_box * nx_box))

----------------------------------------------------------------------------
(* Masked reductions over one tile: np.ma.mean / median / var / std, axis=2 *)

\* positions of the tile that are not masked
Unmasked(vals, msk) == {p \in DOMAIN vals : ~msk[p]}

Count(vals, msk) == Cardinality(Unmasked(vals, msk))

\* sum of the unmasked values
TileSum(vals, msk) ==
    LET n == Len0(vals)
        s[i \in 0..n] ==
            IF i = 0 THEN 0
            ELSE s[i - 1] + (IF msk[i - 1] THEN 0 ELSE vals[i - 1])
    IN  s[n]

\* sum of the squares of the unmasked values
TileSumSq(vals, msk) ==
    LET n == Len0(vals)
        s[i \in 0..n] ==
            IF i = 0 THEN 0
            ELSE s[i - 1] + (IF msk[i - 1] THEN 0 ELSE vals[i - 1] * vals[i - 1])
    IN  s[n]

\* the unmasked value of rank k (0-based) in sorted order
Kth(vals, msk, k) ==
    LET U == Unmasked(vals, msk)
    IN  CHOOSE v \in {vals[p] : p \in U} :
            /\ Cardinality({p \in U : vals[p] < v}) <= k
            /\ k < Cardinality({p \in U : vals[p] <= v})

\* twice the median of the unmasked values (n > 0 of them): an integer
TileMedian2(vals, msk) ==
    LET n == Count(vals, msk)
    IN  IF n % 2 = 1 THEN 2 * Kth(vals, msk, (n - 1) \div 2)
        ELSE Kth(vals, msk, n \div 2 - 1) + Kth(vals, msk, n \div 2)

\* n^2 times the variance (ddof=0) of the unmasked values: an integer
TileVarN2(vals, msk) ==
    Count(vals, msk) * TileSumSq(vals, msk) - TileSum(vals, msk) * TileSum(vals, msk)

ma_mean(vals, msk) ==
    IF Count(vals, msk) = 0 THEN Masked
    ELSE Frac(TileSum(vals, msk), Count(vals, msk))

ma_median(vals, msk) ==
    IF Count(vals, msk) = 0 THEN Masked
    ELSE Frac(TileMedian2(vals, msk), 2)

ma_std(vals, msk) ==
    IF Count(vals, msk) = 0 THEN Masked
    ELSE Sqrt(TileVarN2(vals, msk), Count(vals, msk) * Count(vals, msk))

----------------------------------------------------------------------------
(* astropy.stats.sigma_clip(data_rebin, sig, axis=2, iters,                *)
(*                          cenfunc=np.ma.median, varfunc=np.ma.var)       *)

\* one clip iteration on one tile: the mask grows by every unmasked value whose
\* squared deviation from the median exceeds sig^2 times the variance
clip_tile(vals, msk, sig) ==
    LET n == Count(vals, msk)
        med2 == TileMedian2(vals, msk)
        varN2 == TileVarN2(vals, msk)
    IN  [p \in DOMAIN vals |->
            \/ msk[p]
            \/ /\ n > 0
               /\ (2 * vals[p] - med2) * (2 * vals[p] - med2) * n * n
                      > 4 * varN2 * sig * sig]

\* one clip iteration on every tile of the grid
clip_step(data, gmask, sig) ==
    Eval([i \in DOMAIN data |-> [j \in DOMAIN data[i] |->
            clip_tile(data[i][j], gmask[i][j], sig)]])

\* filtered_data.count(): unmasked entries of the whole grid
grid_count(gmask) ==
    Cardinality({t \in {<<i, j, p>> : i \in DOMAIN gmask, j \in DOMAIN gmask[0],
                                      p \in DOMAIN gmask[0][0]} :
                    ~gmask[t[1]][t[2]][t[3]]})

\* iterations after which the model stops following a clip that has not settled
clip_fuel(gmask) == Len0(gmask[0][0]) + 2

\* the grid masks <<before, after iteration 1, after iteration 2, ...>>.
\* iters=None: iterate until an iteration leaves the count unchanged;
\* otherwise exactly iters iterations.
RECURSIVE clip_iterate(_, _, _, _)
clip_iterate(data, trace, sig, iters) ==
    LET done == Len(trace) - 1
        cur == trace[Len(trace)]
        settled == done >= 1 /\ grid_count(cur) = grid_count(trace[Len(trace) - 1])
        stop == IF iters = None_iters THEN settled ELSE done >= iters
    IN  IF stop \/ done >= clip_fuel(cur) THEN trace
        ELSE clip_iterate(data, Append(trace, clip_step(data, cur, sig)), sig, iters)

sigma_clip_trace(data_rebin, sig, iters) ==
    clip_iterate(data_rebin.data, <<data_rebin.mask>>, sig, iters)

----------------------------------------------------------------------------
(* Background.__init__ and Background._sigclip_data *)

Routines == {"np.pad", "sigma_clip", "ma.mean", "ma.median", "ma.std",
             "generic_filter", "RectBivariateSpline", "np.median"}

NoCalls == [f \in Routines |-> 0]

\* f with f[k] = v added or replaced
Put(f, k, v) == [x \in DOMAIN f \cup {k} |-> IF x = k THEN v ELSE f[x]]

\* an object with no attribute set
NoAttrs == [x \in {} |-> x]

MaskShapeError == "ValueError: mask shape must match data shape"

\* sigma_clip called without iters=self.sigclip_iters
sigclip_data_iters_dropped(data, box_shape, sig, iters) ==
    LET data_rebin == [data |-> rebin(data.data, box_shape),
                       mask |-> rebin(data.mask, box_shape)]
        trace == sigma_clip_trace(data_rebin, sig, None_iters)
    IN  [data_sigclip |-> [data |-> data_rebin.data, mask |-> trace[Len(trace)]],
         trace |-> trace]

\* data_rebin and the whole clip, from self.data
sigclip_data(data, box_shape, sig, iters) ==
    LET data_rebin == [data |-> rebin(data.data, box_shape),
                       mask |-> rebin(data.mask, box_shape)]
        trace == sigma_clip_trace(data_rebin, sig, iters)
    IN  [data_sigclip |-> [data |-> data_rebin.data, mask |-> trace[Len(trace)]],
         trace |-> trace]

\* the attributes __init__ sets, in the order it sets them
init_attrs(a) ==
    LET yextra == Shape(a.data)[1] % a.box_shape[1]
        xextra == Shape(a.data)[2] % a.box_shape[2]
        padded == (yextra > 0) \/ (xextra > 0)
        data == IF padded THEN pad_data(a.data, a.mask, yextra, xextra, a.box_shape)
                ELSE masked_array(a.data, a.mask)
        clip == sigclip_data(data, a.box_shape, a.sigclip_sigma, a.sigclip_iters)
    IN  [self |-> [box_shape |-> a.box_shape,
                   filter_shape |-> a.filter_shape,
                   mask |-> a.mask,
                   method |-> a.method,
                   sigclip_sigma |-> a.sigclip_sigma,
                   sigclip_iters |-> a.sigclip_iters,
                   yextra |-> yextra,
                   xextra |-> xextra,
                   data_shape_orig |-> Shape(a.data),
                   padded |-> padded,
                   data |-> data,
                   data_sigclip |-> clip.data_sigclip],
         trace |-> clip.trace,
         calls |-> [NoCalls EXCEPT !["np.pad"] = IF ~padded THEN 0
                                                ELSE IF a.mask.some THEN 2 ELSE 1,
                                   !["sigma_clip"] = 1]]

\* the mask's shape tested last, after the attributes are set from the data
Background_init_late_check(a) ==
    LET mismatch == a.mask.some /\ Shape(a.mask.arr) # Shape(a.data)
        r == init_attrs(IF mismatch THEN [a EXCEPT !.mask = [some |-> FALSE]] ELSE a)
    IN  [exc |-> IF mismatch THEN MaskShapeError ELSE "",
         self |-> r.self, trace |-> r.trace, calls |-> r.calls]

\* __init__(data, box_shape, filter_shape, mask, method, sigclip_sigma, sigclip_iters)
Background_init(a) ==
    IF a.mask.some /\ Shape(a.mask.arr) # Shape(a.data)
    THEN [exc |-> MaskShapeError, self |-> NoAttrs, trace |-> <<>>, calls |-> NoCalls]
    ELSE LET r == init_attrs(a)
         IN  [exc |-> "", self |-> r.self, trace |-> r.trace, calls |-> r.calls]

----------------------------------------------------------------------------
(* Background._filter_meshes and Background._resize_meshes *)

NaNCell == [kind |-> "nan"]

Zero == Frac(0, 1)

\* generic_filter(mesh, np.nanmedian, size=size, mode='constant', cval=np.nan):
\* every cell becomes the nanmedian of its size[0] x size[1] window, cells of the
\* window outside the mesh being nan
filter_meshes(mesh, size) ==
    LET ny == Shape(mesh)[1]
        nx == Shape(mesh)[2]
    IN  Eval([i \in 0..(ny - 1) |-> [j \in 0..(nx - 1) |->
            [kind |-> "nanmedian",
             window |-> [di \in 0..(size[1] - 1) |-> [dj \in 0..(size[2] - 1) |->
                LET y == i - (size[1] \div 2) + di
                    x == j - (size[2] \div 2) + dj
                IN  IF y \in 0..(ny - 1) /\ x \in 0..(nx - 1) THEN mesh[y][x]
                    ELSE NaNCell]]]]])

\* np.linspace(-0.5, n - 1 + 0.5, num)[k], as an exact fraction
linspace(n, num, k) ==
    IF num = 1 THEN Frac(-1, 2)
    ELSE Frac(2 * k * n - (num - 1), 2 * (num - 1))

\* RectBivariateSpline(y, x, mesh, kx=3, ky=3, s=0)(yy, xx): the spline through
\* the mesh, evaluated on a grid of the shape of self.data
resize_meshes(mesh, data_shape) ==
    LET ny == Shape(mesh)[1]
        nx == Shape(mesh)[2]
    IN  [spline_of |-> mesh,
         at |-> Eval([r \in 0..(data_shape[1] - 1) |-> [c \in 0..(data_shape[2] - 1) |->
                    [kind |-> "spline",
                     y |-> linspace(ny, data_shape[1], r),
                     x |-> linspace(nx, data_shape[2], c)]]])]

\* bkg[-y0:, -x0:]: the last y0 rows and x0 columns are kept
crop_suffix(bkg, y0, x0) ==
    LET dy == Shape(bkg.at)[1] - y0
        dx == Shape(bkg.at)[2] - x0
    IN  [bkg EXCEPT !.at = Eval([r \in 0..(y0 - 1) |->
                               [c \in 0..(x0 - 1) |-> bkg.at[r + dy][c + dx]]])]

\* bkg[0:y0, 0:x0]
crop(bkg, y0, x0) ==
    [bkg EXCEPT !.at = Eval([r \in {k \in DOMAIN bkg.at : k < y0} |->
                           [c \in {k \in DOMAIN bkg.at[r] : k < x0} |-> bkg.at[r][c]]])]

\* the masked pixels are left as interpolated
set_zero_skipped(bkg, mask) == bkg

\* bkg[mask] = 0.
set_zero(bkg, mask) ==
    [bkg EXCEPT !.at = Eval([r \in DOMAIN bkg.at |-> [c \in DOMAIN bkg.at[r] |->
                           IF mask[r][c] THEN Zero ELSE bkg.at[r][c]]])]

\* np.median(bkg[~mask]) (keep = ~mask) and np.median(bkg) (keep all true):
\* the median of the selected pixels in row-major order; nan when none is selected
np_median(bkg, keep) ==
    LET ny == Shape(bkg.at)[1]
        nx == Shape(bkg.at)[2]
        flat == [k \in 1..(ny * nx) |->
                    [e |-> bkg.at[(k - 1) \div nx][(k - 1) % nx],
                     keep |-> keep[(k - 1) \div nx][(k - 1) % nx]]]
        sel == SelectSeq(flat, LAMBDA x : x.keep)
    IN  IF Len(sel) = 0 THEN NaNCell
        ELSE [kind |-> "median", of |-> [k \in 1..Len(sel) |-> sel[k].e]]

np_invert(mask) == [r \in DOMAIN mask |-> [c \in DOMAIN mask[r] |-> ~mask[r][c]]]

np_all(a) == [r \in DOMAIN a |-> [c \in DOMAIN a[r] |-> TRUE]]

----------------------------------------------------------------------------
(* The per-tile background estimators of Background.background_mesh *)

Unspecified == [kind |-> "unspecified"]

\* bkg_est with the mean and the median exchanged: 2.5 * mean - 1.5 * median
sextractor_cell_swapped(vals, msk, zdiv) ==
    LET n == Count(vals, msk)
        S == TileSum(vals, msk)
        med2 == TileMedian2(vals, msk)
        V2 == TileVarN2(vals, msk)
        condition == IF V2 = 0 THEN zdiv
                     ELSE 25 * (2 * S - n * med2) * (2 * S - n * med2) < 9 * V2
        bkg_est == Frac(10 * S - 3 * n * med2, 4 * n)
    IN  IF n = 0 THEN Unspecified
        ELSE IF condition THEN bkg_est ELSE ma_median(vals, msk)

\* method == 'sextractor': np.where(condition, bkg_est, box_median) with
\*   condition = (|box_mean - box_median| / box_std) < 0.3
\*   bkg_est   = 2.5 * box_median - 1.5 * box_mean
\* With n unmasked values of sum S, twice the median med2 and n^2 * variance V2:
\*   box_mean - box_median = (2S - n med2) / (2n),  box_std^2 = V2 / n^2,
\* so for V2 > 0 the condition is 25 (2S - n med2)^2 < 9 V2.  For V2 = 0 the
\* code divides by zero; zdiv is what the comparison then yields.
sextractor_cell(vals, msk, zdiv) ==
    LET n == Count(vals, msk)
        S == TileSum(vals, msk)
        med2 == TileMedian2(vals, msk)
        V2 == TileVarN2(vals, msk)
        condition == IF V2 = 0 THEN zdiv
                     ELSE 25 * (2 * S - n * med2) * (2 * S - n * med2) < 9 * V2
        bkg_est == Frac(5 * n * med2 - 6 * S, 4 * n)
    IN  IF n = 0 THEN Unspecified
        ELSE IF condition THEN bkg_est ELSE ma_median(vals, msk)

\* method == 'mode_estimate': 3 * median - 2 * mean
mode_estimate_cell(vals, msk) ==
    LET n == Count(vals, msk)
    IN  IF n = 0 THEN Masked
        ELSE Frac(3 * n * TileMedian2(vals, msk) - 4 * TileSum(vals, msk), 2 * n)

KnownMethods == {"mean", "median", "sextractor", "mode_estimate"}

MethodError(method) == "ValueError: method " \o method \o " is not defined"

\* the library reductions each method calls
MethodCalls(method) ==
    IF method = "mean" THEN {"ma.mean"}
    ELSE IF method = "median" THEN {"ma.median"}
    ELSE IF method = "sextractor" THEN {"ma.mean", "ma.median", "ma.std"}
    ELSE {"ma.median", "ma.mean"}

Called(m, fs) == [m EXCEPT !.calls = [f \in Routines |-> IF f \in fs THEN @[f] + 1 ELSE @[f]]]

----------------------------------------------------------------------------
(* The lazyproperty accessors.  A memo m carries the instance's cache and the *)
(* counters through one access: m.val is the value produced, m.exc the        *)
(* exception raised ("" for none).                                            *)

\* a plain property: nothing is looked up
Cached_never(m, q) == FALSE

\* lazyproperty.__get__: the value is in the instance's __dict__
Cached(m, q) == q \in DOMAIN m.cache

Hit(m, q) == [m EXCEPT !.val = m.cache[q]]

\* the body of q is entered
Enter(m, q) == [m EXCEPT !.evals[q] = @ + 1]

\* lazyproperty.__get__ stores what the body returned; an exception passes through
Store(m, q) == IF m.exc # "" THEN m ELSE [m EXCEPT !.cache = Put(@, q, m.val)]

\* the means and medians reduced before the method is looked at
background_mesh_eager(m, zdiv) ==
    LET g == self.data_sigclip
        m0 == Called(m, {"ma.mean", "ma.median"})
        bkg_mesh ==
            Eval([i \in DOMAIN g.data |-> [j \in DOMAIN g.data[i] |->
                IF self.method = "mean" THEN ma_mean(g.data[i][j], g.mask[i][j])
                ELSE IF self.method = "median" THEN ma_median(g.data[i][j], g.mask[i][j])
                ELSE IF self.method = "sextractor"
                     THEN sextractor_cell(g.data[i][j], g.mask[i][j], zdiv)
                ELSE mode_estimate_cell(g.data[i][j], g.mask[i][j])]])
    IN  IF self.method \notin KnownMethods
        THEN [m0 EXCEPT !.exc = MethodError(self.method)]
        ELSE IF self.filter_shape # <<1, 1>>
             THEN [Called(m0, {"generic_filter"})
                      EXCEPT !.val = filter_meshes(bkg_mesh, self.filter_shape)]
             ELSE [m0 EXCEPT !.val = bkg_mesh]

background_mesh(m, zdiv) ==
    LET g == self.data_sigclip
        bkg_mesh ==
            Eval([i \in DOMAIN g.data |-> [j \in DOMAIN g.data[i] |->
                IF self.method = "mean" THEN ma_mean(g.data[i][j], g.mask[i][j])
                ELSE IF self.method = "median" THEN ma_median(g.data[i][j], g.mask[i][j])
                ELSE IF self.method = "sextractor"
                     THEN sextractor_cell(g.data[i][j], g.mask[i][j], zdiv)
                ELSE mode_estimate_cell(g.data[i][j], g.mask[i][j])]])
    IN  IF self.method \notin KnownMethods
        THEN [m EXCEPT !.exc = MethodError(self.method)]
        ELSE IF self.filter_shape # <<1, 1>>
             THEN [Called(Called(m, MethodCalls(self.method)), {"generic_filter"})
                      EXCEPT !.val = filter_meshes(bkg_mesh, self.filter_shape)]
             ELSE [Called(m, MethodCalls(self.method)) EXCEPT !.val = bkg_mesh]

Get_background_mesh(m, zdiv) ==
    IF Cached(m, "background_mesh") THEN Hit(m, "background_mesh")
    ELSE Store(background_mesh(Enter(m, "background_mesh"), zdiv), "background_mesh")

background_rms_mesh(m) ==
    LET g == self.data_sigclip
        bkgrms_mesh ==
            Eval([i \in DOMAIN g.data |-> [j \in DOMAIN g.data[i] |->
                ma_std(g.data[i][j], g.mask[i][j])]])
    IN  IF self.filter_shape # <<1, 1>>
        THEN [Called(Called(m, {"ma.std"}), {"generic_filter"})
                 EXCEPT !.val = filter_meshes(bkgrms_mesh, self.filter_shape)]
        ELSE [Called(m, {"ma.std"}) EXCEPT !.val = bkgrms_mesh]

Get_background_rms_mesh(m) ==
    IF Cached(m, "background_rms_mesh") THEN Hit(m, "background_rms_mesh")
    ELSE Store(background_rms_mesh(Enter(m, "background_rms_mesh")), "background_rms_mesh")

\* the part of background and background_rms after the mesh is resized
crop_and_zero(bkg) ==
    LET cropped == IF self.padded
                   THEN crop(bkg, self.data_shape_orig[1], self.data_shape_orig[2])
                   ELSE bkg
    IN  IF self.mask.some THEN set_zero(cropped, self.mask.arr) ELSE cropped

background(m, zdiv) ==
    LET m1 == Get_background_mesh(m, zdiv)
    IN  IF m1.exc # "" THEN m1
        ELSE [Called(m1, {"RectBivariateSpline"}) EXCEPT
                 !.val = crop_and_zero(resize_meshes(m1.val, Shape(self.data.data)))]

Get_background(m, zdiv) ==
    IF Cached(m, "background") THEN Hit(m, "background")
    ELSE Store(background(Enter(m, "background"), zdiv), "background")

background_rms(m) ==
    LET m1 == Get_background_rms_mesh(m)
    IN  IF m1.exc # "" THEN m1
        ELSE [Called(m1, {"RectBivariateSpline"}) EXCEPT
                 !.val = crop_and_zero(resize_meshes(m1.val, Shape(self.data.data)))]

Get_background_rms(m) ==
    IF Cached(m, "background_rms") THEN Hit(m, "background_rms")
    ELSE Store(background_rms(Enter(m, "background_rms")), "background_rms")

\* np.median(x[~self.mask]) with a mask, np.median(x) without
median_unmasked(bkg) ==
    IF self.mask.some THEN np_median(bkg, np_invert(self.mask.arr))
    ELSE np_median(bkg, np_all(bkg.at))

background_median(m, zdiv) ==
    LET m1 == Get_background(m, zdiv)
    IN  IF m1.exc # "" THEN m1
        ELSE [Called(m1, {"np.median"}) EXCEPT !.val = median_unmasked(m1.val)]

Get_background_median(m, zdiv) ==
    IF Cached(m, "background_median") THEN Hit(m, "background_median")
    ELSE Store(background_median(Enter(m, "background_median"), zdiv), "background_median")

background_rms_median(m) ==
    LET m1 == Get_background_rms(m)
    IN  IF m1.exc # "" THEN m1
        ELSE [Called(m1, {"np.median"}) EXCEPT !.val = median_unmasked(m1.val)]

Get_background_rms_median(m) ==
    IF Cached(m, "background_rms_median") THEN Hit(m, "background_rms_median")
    ELSE Store(background_rms_median(Enter(m, "background_rms_median")),
               "background_rms_median")

----------------------------------------------------------------------------
(* The inputs the model constructs estimators from *)

ImageNames == {"squares", "spike"}

\* the pixel of flat index i: i^2, or one bright pixel on a zero sky
Pixel(name, i) ==
    IF name = "squares" THEN i * i ELSE IF i = 0 THEN 9 ELSE 0

Image(name, ny, nx) ==
    [r \in 0..(ny - 1) |-> [c \in 0..(nx - 1) |-> Pixel(name, r * nx + c)]]

\* mask=None, a mask of the image's shape (checkerboard, all true), and a
\* mask one column wider than the image
MaskInputs(ny, nx) ==
    { [some |-> FALSE],
      [some |-> TRUE, arr |-> [r \in 0..(ny - 1) |-> [c \in 0..(nx - 1) |-> (r + c) % 2 = 1]]],
      [some |-> TRUE, arr |-> [r \in 0..(ny - 1) |-> [c \in 0..(nx - 1) |-> TRUE]]],
      [some |-> TRUE, arr |-> [r \in 0..(ny - 1) |-> [c \in 0..nx |-> FALSE]]] }

Methods == {"mean", "median", "sextractor", "mode_estimate", "biweight"}

FilterShapes == {<<1, 1>>, <<3, 3>>}

\* (sigclip_sigma, sigclip_iters)
ClipSettings == {<<3, None_iters>>, <<1, None_iters>>, <<1, 1>>}

Quantities == {"background_mesh", "background_rms_mesh", "background",
               "background_rms", "background_median", "background_rms_median"}

NoRet == [q |-> "", kind |-> "none", val |-> "", work |-> 0]

\* the call Background(data, box_shape, filter_shape, mask, method,
\*                      sigclip_sigma, sigclip_iters)
Call(data, box_shape, filter_shape, mask, method, cs) ==
    [data |-> data, box_shape |-> box_shape, filter_shape |-> filter_shape,
     mask |-> mask, method |-> method, sigclip_sigma |-> cs[1], sigclip_iters |-> cs[2]]

\* nothing is constructed or accessed yet
Fresh ==
    /\ pc = "new"
    /\ self = NoAttrs
    /\ cache = NoAttrs
    /\ evals = [q \in Quantities |-> 0]
    /\ calls = NoCalls
    /\ sigclip_trace = <<>>
    /\ ret = NoRet

\* Calls with the default clipping (sigclip_sigma=3., sigclip_iters=None) and a
\* square box: every image shape, mask, method and filter shape
Init ==
    /\ \E ny \in 1..MaxDim, nx \in 1..MaxDim, b \in 1..MaxBox,
          method \in Methods, fs \in FilterShapes :
         \E mask \in MaskInputs(ny, nx) :
            args = Call(Image("squares", ny, nx), <<b, b>>, fs, mask, method,
                        <<3, None_iters>>)
    /\ Fresh

\* Calls over every image, box shape, mask, method, filter shape and clip setting
InitStats ==
    /\ \E ny \in 1..MaxDim, nx \in 1..MaxDim, by \in 1..MaxBox, bx \in 1..MaxBox,
          name \in ImageNames, method \in Methods, fs \in FilterShapes,
          cs \in ClipSettings :
         \E mask \in MaskInputs(ny, nx) :
            args = Call(Image(name, ny, nx), <<by, bx>>, fs, mask, method, cs)
    /\ Fresh

\* Background(data, box_shape, filter_shape, mask, method, sigclip_sigma, sigclip_iters)
Construct ==
    /\ pc = "new"
    /\ LET r == Background_init(args)
       IN  /\ self' = r.self
           /\ sigclip_trace' = r.trace
           /\ calls' = r.calls
           /\ pc' = IF r.exc = "" THEN "ready" ELSE "raised"
           /\ ret' = IF r.exc = "" THEN [NoRet EXCEPT !.q = "__init__", !.kind = "value"]
                     ELSE [NoRet EXCEPT !.q = "__init__", !.kind = "raise", !.val = r.exc]
    /\ UNCHANGED <<args, cache, evals>>

\* library calls made so far
CallsTotal(c) ==
    c["np.pad"] + c["sigma_clip"] + c["ma.mean"] + c["ma.median"] + c["ma.std"]
    + c["generic_filter"] + c["RectBivariateSpline"] + c["np.median"]

\* the memo an access starts from
Start == [cache |-> cache, evals |-> evals, calls |-> calls, exc |-> "", val |-> ""]

\* the access of q ended in memo m: the instance keeps the cache, the caller
\* gets the value or the exception
Finish(q, m) ==
    /\ \A x \in Quantities : m.evals[x] <= MaxEvals
    /\ cache' = m.cache
    /\ evals' = m.evals
    /\ calls' = m.calls
    /\ ret' = [q |-> q,
               kind |-> IF m.exc = "" THEN "value" ELSE "raise",
               val |-> IF m.exc = "" THEN m.val ELSE m.exc,
               work |-> CallsTotal(m.calls) - CallsTotal(calls)]
    /\ UNCHANGED <<pc, args, self, sigclip_trace>>

Access_background_mesh ==
    /\ pc = "ready"
    /\ \E zdiv \in BOOLEAN : Finish("background_mesh", Get_background_mesh(Start, zdiv))

Access_background_rms_mesh ==
    /\ pc = "ready"
    /\ Finish("background_rms_mesh", Get_background_rms_mesh(Start))

Access_background ==
    /\ pc = "ready"
    /\ \E zdiv \in BOOLEAN : Finish("background", Get_background(Start, zdiv))

Access_background_rms ==
    /\ pc = "ready"
    /\ Finish("background_rms", Get_background_rms(Start))

Access_background_median ==
    /\ pc = "ready"
    /\ \E zdiv \in BOOLEAN : Finish("background_median", Get_background_median(Start, zdiv))

Access_background_rms_median ==
    /\ pc = "ready"
    /\ Finish("background_rms_median", Get_background_rms_median(Start))

Next ==
    \/ Construct
    \/ Access_background_mesh
    \/ Access_background_rms_mesh
    \/ Access_background
    \/ Access_background_rms
    \/ Access_background_median
    \/ Access_background_rms_median

\* construction, then the six accessors in any order
Spec == Init /\ [][Next]_vars

NextStats ==
    \/ Construct
    \/ Access_background_mesh
    \/ Access_background_rms_mesh

\* construction, then the two meshes in any order
SpecStats == InitStats /\ [][NextStats]_vars

----------------------------------------------------------------------------
(* Vocabulary of the properties *)

Constructed == pc = "ready"

\* the user gave a mask, and it is true at pixel (r, c)
UserMasked(r, c) == args.mask.some /\ args.mask.arr[r][c]

ImageShape == Shape(args.data)

\* the shape the spec gives the padded data: H + ((box_h - H % box_h) % box_h)
PaddedLen(n, box) == n + ((box - (n % box)) % box)

PaddedShape ==
    <<PaddedLen(ImageShape[1], args.box_shape[1]),
      PaddedLen(ImageShape[2], args.box_shape[2])>>

\* the pixels of an array of the given shape
Pixels(shape) == (0..(shape[1] - 1)) \X (0..(shape[2] - 1))

\* the pixels the padding added
PaddedIn == {px \in Pixels(PaddedShape) : px[1] >= ImageShape[1] \/ px[2] >= ImageShape[2]}

\* the tile (row, column) and the position in the tile the spec gives pixel (r, c)
TileOf(r, c) ==
    <<r \div args.box_shape[1], c \div args.box_shape[2],
      (r % args.box_shape[1]) * args.box_shape[2] + (c % args.box_shape[2])>>

Maps == {"background", "background_rms"}

MeshChain == {"background_mesh", "background", "background_median"}

\* exact arithmetic on [kind |-> "frac"] values
FSub(a, b) == Frac(a.n * b.d - b.n * a.d, a.d * b.d)
FScale(kn, kd, a) == Frac(kn * a.n, kd * a.d)
FSquare(a) == Frac(a.n * a.n, a.d * a.d)
FLess(a, b) == a.n * b.d < b.n * a.d

----------------------------------------------------------------------------
(* C1 *)

\* C1: in the final background and background_rms maps, every pixel where the
\* user mask is true is exactly 0, whether or not the data were padded.
C1_MaskedPixelsZero ==
    \A q \in Maps \cap DOMAIN cache :
        \A px \in Pixels(ImageShape) :
            UserMasked(px[1], px[2]) => cache[q].at[px[1]][px[2]] = Zero

\* both maps exist for a padded, filtered estimator whose mask is true at some
\* pixels and false at others
C1_Witness ==
    /\ Constructed
    /\ self.padded
    /\ self.filter_shape # <<1, 1>>
    /\ Maps \subseteq DOMAIN cache
    /\ \E px \in Pixels(ImageShape) : UserMasked(px[1], px[2])
    /\ \E px \in Pixels(ImageShape) : ~UserMasked(px[1], px[2])

----------------------------------------------------------------------------
(* C2 *)

\* C2: both maps have exactly the image's shape (H, W); each unmasked pixel (r, c)
\* holds the spline evaluated at point (r, c) of the grid laid over the padded
\* shape, so that cropping kept the first H rows and the first W columns.
C2_MapShape ==
    \A q \in Maps \cap DOMAIN cache :
        /\ DOMAIN cache[q].at = 0..(ImageShape[1] - 1)
        /\ \A r \in DOMAIN cache[q].at : DOMAIN cache[q].at[r] = 0..(ImageShape[2] - 1)
        /\ \A px \in Pixels(ImageShape) :
              ~UserMasked(px[1], px[2]) =>
                  cache[q].at[px[1]][px[2]] =
                      [kind |-> "spline",
                       y |-> linspace(PaddedShape[1] \div args.box_shape[1],
                                      PaddedShape[1], px[1]),
                       x |-> linspace(PaddedShape[2] \div args.box_shape[2],
                                      PaddedShape[2], px[2])]

\* both maps exist for an image that the box divides on neither axis
C2_Witness ==
    /\ Constructed
    /\ self.yextra > 0
    /\ self.xextra > 0
    /\ Maps \subseteq DOMAIN cache

----------------------------------------------------------------------------
(* C3 *)

\* C3: after construction the stored data and its mask have the padded shape
\* H + ((box_h - H % box_h) % box_h) by W + ((box_w - W % box_w) % box_w), which
\* the box divides; padded is false exactly when the box divides H and W; and
\* every original pixel is at its original (row, col).
C3_PaddedShape ==
    Constructed =>
        /\ Shape(self.data.data) = PaddedShape
        /\ Shape(self.data.mask) = PaddedShape
        /\ \A r \in DOMAIN self.data.data : Len0(self.data.data[r]) = PaddedShape[2]
        /\ PaddedShape[1] % args.box_shape[1] = 0
        /\ PaddedShape[2] % args.box_shape[2] = 0
        /\ self.padded <=> ~(ImageShape[1] % args.box_shape[1] = 0
                             /\ ImageShape[2] % args.box_shape[2] = 0)
        /\ \A px \in Pixels(ImageShape) :
              self.data.data[px[1]][px[2]] = args.data[px[1]][px[2]]

\* an estimator padded in the columns only, over an image of more than one row
C3_Witness ==
    /\ Constructed
    /\ self.padded
    /\ self.yextra = 0
    /\ self.xextra > 0
    /\ ImageShape[1] > 1

----------------------------------------------------------------------------
(* C4 *)

----------------------------------------------------------------------------
(* C5 *)

\* C5 as stated: the body of every quantity is entered at most once.
C5_BodyAtMostOnce == \A q \in Quantities : evals[q] <= 1

\* what holds of the caches and the latest access in every state
C5_CacheState ==
    Constructed =>
        /\ \A q \in DOMAIN cache : evals[q] = 1
        /\ \A q \in Quantities \ MeshChain : evals[q] <= 1
        /\ self.method \in KnownMethods => \A q \in Quantities : evals[q] <= 1
        /\ self.method \notin KnownMethods => MeshChain \cap DOMAIN cache = {}
        /\ (ret.q \in Quantities /\ ret.kind = "value") =>
              /\ ret.q \in DOMAIN cache
              /\ ret.val = cache[ret.q]
        /\ (ret.q \in Quantities /\ ret.kind = "raise") =>
              /\ ret.q \in MeshChain
              /\ self.method \notin KnownMethods

\* what holds of every step: a cached value is kept as it is and its body is not
\* entered again, and an access that finds its quantity cached calls nothing
C5_CacheStep ==
    /\ \A q \in DOMAIN cache :
          /\ q \in DOMAIN cache'
          /\ cache'[q] = cache[q]
          /\ evals'[q] = evals[q]
    /\ \A q \in Quantities :
          (ret' # ret /\ ret'.q = q /\ q \in DOMAIN cache) =>
              /\ ret'.kind = "value"
              /\ ret'.val = cache[q]
              /\ ret'.work = 0
              /\ evals' = evals

\* C5, amended: a body that returns is entered at most once, its value is cached
\* and every later access returns that value without entering a body or calling
\* anything; a body that raises (unknown method) caches nothing and is entered
\* again by the next access.
C5_ComputedOnceUnlessRaised == [](C5_CacheState) /\ [][C5_CacheStep]_vars

\* all six quantities are cached and the latest access was served from the cache
C5_Witness ==
    /\ Constructed
    /\ DOMAIN cache = Quantities
    /\ ret.q = "background"
    /\ ret.work = 0

----------------------------------------------------------------------------
(* C6 *)

\* C6: with an unknown method, every access of background_mesh, background or
\* background_median (the first included) raises the method error having called
\* no library routine, nothing of the three is ever cached, and no mean or median
\* is ever reduced.
C6_UnknownMethodRaises ==
    (Constructed /\ self.method \notin KnownMethods) =>
        /\ MeshChain \cap DOMAIN cache = {}
        /\ calls["ma.mean"] = 0
        /\ calls["ma.median"] = 0
        /\ ret.q \in MeshChain =>
              /\ ret.kind = "raise"
              /\ ret.val = MethodError(self.method)
              /\ ret.work = 0

\* background_median was accessed on an estimator with an unknown method
C6_Witness ==
    /\ Constructed
    /\ self.method \notin KnownMethods
    /\ ret.q = "background_median"
    /\ evals["background_mesh"] = 1

----------------------------------------------------------------------------
(* C7 *)

MaskMismatch == args.mask.some /\ Shape(args.mask.arr) # Shape(args.data)

\* C7: a call with a mask whose shape differs from the image's raises the
\* shape error, with no attribute set, nothing padded or clipped, and no derived
\* quantity ever after; no other call raises.
C7_ShapeMismatchRaises ==
    /\ (pc # "new" /\ MaskMismatch) =>
          /\ pc = "raised"
          /\ ret = [NoRet EXCEPT !.q = "__init__", !.kind = "raise", !.val = MaskShapeError]
          /\ DOMAIN self = {}
          /\ calls = NoCalls
          /\ sigclip_trace = <<>>
          /\ DOMAIN cache = {}
          /\ \A q \in Quantities : evals[q] = 0
    /\ pc = "raised" => MaskMismatch

\* the constructor raised
C7_Witness == pc = "raised" /\ MaskMismatch

----------------------------------------------------------------------------
(* C8 *)

\* the masked positions of tile (i, j) of a grid mask
MaskedIn(gmask, i, j) == {p \in DOMAIN gmask[i][j] : gmask[i][j][p]}

Tiles(gmask) == {<<i, j>> : i \in DOMAIN gmask, j \in DOMAIN gmask[0]}

\* C8: from one clip iteration to the next the masked set of every tile only
\* grows, and it has at most box_h * box_w pixels; the clip ends: with
\* sigclip_iters unset at the first iteration that flags no pixel (after at most
\* box_h * box_w + 1 iterations), and with sigclip_iters set after at most that
\* many iterations.  data_sigclip carries the mask of the last iteration.
C8_ClipMonotoneAndEnds ==
    Constructed =>
        LET n == Len(sigclip_trace)
            size == args.box_shape[1] * args.box_shape[2]
        IN  /\ n >= 1
            /\ sigclip_trace[1] = rebin(self.data.mask, self.box_shape)
            /\ sigclip_trace[n] = self.data_sigclip.mask
            /\ \A k \in 1..n : \A t \in Tiles(sigclip_trace[k]) :
                  /\ Cardinality(MaskedIn(sigclip_trace[k], t[1], t[2])) <= size
                  /\ k < n => MaskedIn(sigclip_trace[k], t[1], t[2])
                                  \subseteq MaskedIn(sigclip_trace[k + 1], t[1], t[2])
            /\ args.sigclip_iters = None_iters =>
                  /\ n >= 2
                  /\ n - 1 <= size + 1
                  /\ sigclip_trace[n] = sigclip_trace[n - 1]
                  /\ \A k \in 1..(n - 2) : sigclip_trace[k + 1] # sigclip_trace[k]
            /\ args.sigclip_iters # None_iters => n - 1 <= args.sigclip_iters

\* an unbounded clip that flagged pixels in two successive iterations
C8_Witness ==
    /\ Constructed
    /\ args.sigclip_iters = None_iters
    /\ Len(sigclip_trace) >= 4

----------------------------------------------------------------------------
(* C9 *)

\* the cell the spec gives a tile with unmasked values: 2.5*median - 1.5*mean
\* when std > 0 and |mean - median| / std < 0.3, the median otherwise
SextractorExpected(vals, msk) ==
    LET mean == ma_mean(vals, msk)
        median == ma_median(vals, msk)
        var == Frac(ma_std(vals, msk).n, ma_std(vals, msk).d)
    IN  IF var.n > 0 /\ FLess(FSquare(FSub(mean, median)), FScale(9, 100, var))
        THEN FSub(FScale(5, 2, median), FScale(3, 2, mean))
        ELSE median

\* C9: with method 'sextractor' and filter_shape (1, 1), every cell of
\* background_mesh over a tile with unmasked values is 2.5*median - 1.5*mean of
\* the clipped tile when |mean - median| / std < 0.3, and the median otherwise,
\* a tile of std 0 included.
C9_SextractorCell ==
    (Constructed /\ self.method = "sextractor" /\ self.filter_shape = <<1, 1>>
        /\ "background_mesh" \in DOMAIN cache) =>
        \A t \in Tiles(self.data_sigclip.mask) :
            LET vals == self.data_sigclip.data[t[1]][t[2]]
                msk == self.data_sigclip.mask[t[1]][t[2]]
            IN  Count(vals, msk) > 0 =>
                    cache["background_mesh"][t[1]][t[2]] = SextractorExpected(vals, msk)

\* a sextractor mesh with a cell that is not its tile's median
C9_Witness ==
    /\ Constructed
    /\ self.method = "sextractor"
    /\ self.filter_shape = <<1, 1>>
    /\ "background_mesh" \in DOMAIN cache
    /\ \E t \in Tiles(self.data_sigclip.mask) :
          /\ Count(self.data_sigclip.data[t[1]][t[2]], self.data_sigclip.mask[t[1]][t[2]]) > 0
          /\ cache["background_mesh"][t[1]][t[2]]
                # ma_median(self.data_sigclip.data[t[1]][t[2]],
                            self.data_sigclip.mask[t[1]][t[2]])

----------------------------------------------------------------------------
(* C10 *)

\* the array of the padded shape whose pixel (r, c) holds its own index
IndexArray == [r \in 0..(PaddedShape[1] - 1) |-> [c \in 0..(PaddedShape[2] - 1) |-> <<r, c>>]]

\* C10: the tiling puts padded pixel (r, c) in tile (r // box_h, c // box_w)
\* at position (r % box_h) * box_w + (c % box_w); the grid has H_padded / box_h
\* by W_padded / box_w tiles of box_h * box_w positions, and every position
\* holds another pixel.
C10_TilingBijection ==
    Constructed =>
        LET tiled == rebin(IndexArray, self.box_shape)
            grid == self.data_sigclip.data
            triples == {<<i, j, p>> : i \in DOMAIN grid, j \in DOMAIN grid[0],
                                      p \in DOMAIN grid[0][0]}
        IN  /\ Len0(grid) = PaddedShape[1] \div args.box_shape[1]
            /\ \A i \in DOMAIN grid :
                  /\ Len0(grid[i]) = PaddedShape[2] \div args.box_shape[2]
                  /\ \A j \in DOMAIN grid[i] :
                        Len0(grid[i][j]) = args.box_shape[1] * args.box_shape[2]
            /\ \A px \in Pixels(PaddedShape) :
                  LET t == TileOf(px[1], px[2])
                  IN  /\ t \in triples
                      /\ tiled[t[1]][t[2]][t[3]] = px
                      /\ grid[t[1]][t[2]][t[3]] = self.data.data[px[1]][px[2]]
                      /\ sigclip_trace[1][t[1]][t[2]][t[3]] = self.data.mask[px[1]][px[2]]
            /\ Cardinality({tiled[t[1]][t[2]][t[3]] : t \in triples})
                  = Cardinality(triples)
            /\ Cardinality(triples) = Cardinality(Pixels(PaddedShape))

\* a grid of more than one tile column with boxes of more than one row
C10_Witness ==
    /\ Constructed
    /\ self.box_shape[1] > 1
    /\ Len0(self.data_sigclip.data[0]) > 1

====
